---- MODULE Spec2Model ----
(***************************************************************************)
(* The two model adapters of classic_or_regression_models: LightGBM        *)
(* (LightGBM.py) and SVMModel (SVM.py).  An adapter object holds a task,   *)
(* the caller's keyword overrides and a delegate estimator; the delegate   *)
(* carries an identity, so that a replaced delegate differs from the one   *)
(* it replaces.                                                            *)
(***************************************************************************)
EXTENDS Integers, Sequences, FiniteSets, TLC

VARIABLES live, obj, last

vars == <<live, obj, last>>

\* ------------------------------------------------------------------ bounds

\* Delegates constructed over the life of one adapter.
MaxModels == 2

\* Calls of the delegate's fit per delegate.
MaxFits == 1

\* ------------------------------------------------------------- input values

Classes == {"LightGBM", "SVMModel"}

\* Python's None (not a string: it has no .lower()).
NoneValue == "<None>"

\* A keyword argument the caller did not write.
Omitted == "<omitted>"

Recognized == {"classification", "regression"}

TaskInputs == {"classification", "regression", "Regression", "invalid", NoneValue}

ParamNames == {"n_estimators", "C", "degree"}

ParamValues(name) ==
    CASE name = "n_estimators" -> {200}
      [] name = "C" -> {5}
      [] name = "degree" -> {2, 4}

\* Every keyword mapping a caller can pass over the names in D.
MapsOver(D) ==
    { f \in [D -> UNION {ParamValues(n) : n \in ParamNames}] :
        \A k \in D : f[k] \in ParamValues(k) }

\* The keyword mappings a constructor call is tried with.
ParamMaps == UNION { MapsOver(D) : D \in SUBSET ParamNames }

\* The keyword mappings a set_params call is tried with: at most one name.
ParamUpdates == UNION { MapsOver(D) : D \in {{}} \cup {{n} : n \in ParamNames} }

EvalSetInputs == {Omitted, "[]", "[(X_val, y_val)]"}

RoundsInputs == {Omitted, "0", "5"}

EmptyMap == <<>>

NoFit == [kind |-> "none"]

\* The delegate slot of an object whose constructor has built none.
NoDelegate ==
    [id |-> 0, variant |-> "none", kw |-> EmptyMap, fitted |-> FALSE,
     fits |-> 0, lastFit |-> NoFit]

\* The adapter variable before a constructor call has returned an object.
NoObj == [task |-> "<unbound>", params |-> EmptyMap, model |-> NoDelegate]

\* ------------------------------------------------------------ pure helpers

\* str.lower() on the task strings in TaskInputs.
Lower(s) ==
    CASE s = "Regression" -> "regression"
      [] s = "Classification" -> "classification"
      [] s = "Invalid" -> "invalid"
      [] OTHER -> s

\* {**a, **b}: the keys of both, b's value where both have the key.
Merge(a, b) ==
    [k \in (DOMAIN a) \cup (DOMAIN b) |-> IF k \in DOMAIN b THEN b[k] ELSE a[k]]

\* Python truth value of an optional fit argument.
Truthy(v) == v \notin {Omitted, NoneValue, "0", "[]"}

\* A parameter's own default when the caller omits the keyword.
ArgOrDefault(v, default) == IF v = Omitted THEN default ELSE v

\* The keywords each adapter writes out in its delegate constructor call.
Defaults(cls, variant) ==
    IF cls = "LightGBM"
    THEN [n_estimators |-> 100, learning_rate |-> "0.1", max_depth |-> -1,
          num_leaves |-> 31, boosting_type |-> "gbdt", subsample |-> "0.8",
          colsample_bytree |-> "0.8", random_state |-> 42]
    ELSE IF variant = "classifier"
         THEN [kernel |-> "rbf", C |-> "1.0", gamma |-> "scale",
               probability |-> TRUE, random_state |-> 42]
         ELSE [kernel |-> "rbf", C |-> "1.0", gamma |-> "scale", epsilon |-> "0.1"]

\* The keyword names the imported delegate constructors take: the LGBM
\* estimators take any keyword (**kwargs), SVC and SVR a fixed list.
DelegateAccepts(cls, variant, name) ==
    IF cls = "LightGBM" THEN TRUE
    ELSE IF variant = "classifier"
         THEN name \in {"C", "kernel", "degree", "gamma", "coef0", "shrinking",
                        "probability", "tol", "cache_size", "class_weight",
                        "verbose", "max_iter", "decision_function_shape",
                        "break_ties", "random_state"}
         ELSE name \in {"kernel", "degree", "gamma", "coef0", "tol", "C",
                        "epsilon", "shrinking", "cache_size", "verbose", "max_iter"}

\* Variant(explicit keywords, **kwargs): a keyword given twice is a TypeError,
\* as is one the constructor does not take; otherwise a new unfitted delegate,
\* the id-th one this adapter has built.
NewDelegate(cls, variant, kwargs, id) ==
    LET explicit == Defaults(cls, variant) IN
    IF (DOMAIN explicit) \cap (DOMAIN kwargs) # {}
    THEN [exc |-> "TypeError"]
    ELSE IF \E k \in DOMAIN kwargs : ~DelegateAccepts(cls, variant, k)
    THEN [exc |-> "TypeError"]
    ELSE [exc |-> "none",
          model |-> [id |-> id, variant |-> variant,
                     kw |-> Merge(explicit, kwargs),
                     fitted |-> FALSE, fits |-> 0, lastFit |-> NoFit]]

\* Mutant: the else branch builds a regressor instead of raising.
TaskBranch_NoRaise(task) ==
    IF task = "classification" THEN "classifier" ELSE "regressor"

\* The if / elif / else on self.task in __init__.
TaskBranch(task) ==
    IF task = "classification" THEN "classifier"
    ELSE IF task = "regression" THEN "regressor"
    ELSE "raise"

\* ------------------------------------------------------------ the adapter

\* __init__(self, task, **kwargs) run on `self`.  It assigns self.task and
\* self.<params> before it builds the delegate, so an exception leaves those
\* assignments behind and self.model as it was.
InitAdapter(cls, self, task, kwargs) ==
    IF task = NoneValue
    THEN [exc |-> "AttributeError", self |-> self]
    ELSE LET self1 == [self EXCEPT !.task = Lower(task), !.params = kwargs]
             branch == TaskBranch(self1.task)
         IN  IF branch = "raise"
             THEN [exc |-> "ValueError", self |-> self1]
             ELSE LET d == NewDelegate(cls, branch, self1.params, self.model.id + 1)
                  IN  IF d.exc # "none"
                      THEN [exc |-> d.exc, self |-> self1]
                      ELSE [exc |-> "none",
                            self |-> [self1 EXCEPT !.model = d.model]]

\* Cls(task=..., **kwargs): __init__ on a new object; task defaults to
\* "classification".
Construct(cls, taskArg, kwargs) ==
    InitAdapter(cls, NoObj, ArgOrDefault(taskArg, "classification"), kwargs)

\* Mutant: the new values are set on the existing delegate, which is kept.
SetParams_InPlace(cls, self, taskArg, hp) ==
    LET self1 == [self EXCEPT !.task = IF taskArg = Omitted THEN @ ELSE taskArg,
                              !.params = Merge(@, hp)]
    IN  IF self1.task \notin {"classification", "regression"}
        THEN [exc |-> "ValueError", self |-> self1]
        ELSE [exc |-> "none",
              self |-> [self1 EXCEPT !.model.kw = Merge(@, hp)]]

\* set_params(**params): the loop stores task and the other keys on self,
\* then __init__ is run again on the same object.
SetParams(cls, self, taskArg, hp) ==
    LET self1 == [self EXCEPT !.task = IF taskArg = Omitted THEN @ ELSE taskArg,
                              !.params = Merge(@, hp)]
    IN  InitAdapter(cls, self1, self1.task, self1.params)

\* Mutant: the delegate's own parameters are returned, defaults included.
GetParams_Deep(self) == Merge([task |-> self.task], self.model.kw)

\* get_params(): {"task": self.task, **self.<params>}.
GetParams(self) == Merge([task |-> self.task], self.params)

\* The delegate's fit: it records the call and becomes fitted.
DelegateFit(d, call) ==
    [d EXCEPT !.fitted = TRUE, !.fits = @ + 1, !.lastFit = call]

\* Mutant: `or` for `and`.
UseEarlyStopping_Or(eval_set, early_stopping_rounds) ==
    Truthy(eval_set) \/ Truthy(early_stopping_rounds)

\* `if eval_set and early_stopping_rounds` in LightGBM.fit.
UseEarlyStopping(eval_set, early_stopping_rounds) ==
    Truthy(eval_set) /\ Truthy(early_stopping_rounds)

\* The one delegate fit call an adapter's fit makes.
FitCall(cls, eval_set, early_stopping_rounds) ==
    IF cls = "LightGBM" /\ UseEarlyStopping(eval_set, early_stopping_rounds)
    THEN [kind |-> "early", eval_set |-> eval_set,
          early_stopping_rounds |-> early_stopping_rounds, verbose |-> FALSE]
    ELSE [kind |-> "plain"]

\* fit(...): LightGBM.fit takes eval_set and early_stopping_rounds (default
\* None); SVMModel.fit takes X_train and y_train only, so either keyword is a
\* TypeError at the call.
Fit(cls, self, evalArg, roundsArg) ==
    IF cls = "SVMModel" /\ (evalArg # Omitted \/ roundsArg # Omitted)
    THEN [exc |-> "TypeError", self |-> self, called |-> <<>>]
    ELSE LET call == FitCall(cls, ArgOrDefault(evalArg, NoneValue),
                             ArgOrDefault(roundsArg, NoneValue))
         IN  [exc |-> "none",
              self |-> [self EXCEPT !.model = DelegateFit(@, call)],
              called |-> <<"fit">>]

\* predict(X): the delegate's predict, which needs a fitted delegate.
Predict(cls, self) ==
    IF self.model.fitted
    THEN [exc |-> "none", ret |-> "y_pred", called |-> <<"predict">>]
    ELSE [exc |-> "NotFittedError", ret |-> NoneValue, called |-> <<"predict">>]

\* Whether the delegate has a predict_proba attribute: classifiers only, and
\* SVC only when built with probability=True.
HasPredictProba(cls, d) ==
    /\ d.variant = "classifier"
    /\ (cls = "SVMModel" => d.kw["probability"] = TRUE)

\* self.model.predict_proba(X).
DelegatePredictProba(cls, d) ==
    IF ~HasPredictProba(cls, d)
    THEN [exc |-> "AttributeError", ret |-> NoneValue, called |-> <<>>]
    ELSE IF ~d.fitted
    THEN [exc |-> "NotFittedError", ret |-> NoneValue, called |-> <<"predict_proba">>]
    ELSE [exc |-> "none", ret |-> "proba", called |-> <<"predict_proba">>]

\* Mutant: only the delegate's attribute is tested, not the task.
ProbaGuard_NoTask(cls, self) == HasPredictProba(cls, self.model)

\* The condition guarding the delegate call in predict_proba.
ProbaGuard(cls, self) ==
    /\ self.task = "classification"
    /\ (cls = "SVMModel" => HasPredictProba(cls, self.model))

\* predict_proba(X).
PredictProba(cls, self) ==
    IF ProbaGuard(cls, self)
    THEN DelegatePredictProba(cls, self.model)
    ELSE [exc |-> "AttributeError", ret |-> NoneValue, called |-> <<>>]

\* The metric evaluate picks; falling off the if / elif returns None.
Metric(task) ==
    IF task = "classification" THEN "accuracy_score(y_test, y_pred)"
    ELSE IF task = "regression" THEN "mean_squared_error(y_test, y_pred)"
    ELSE NoneValue

\* evaluate(X_test, y_test).
Evaluate(cls, self) ==
    LET p == Predict(cls, self)
    IN  IF p.exc # "none" THEN p
        ELSE [exc |-> "none", ret |-> Metric(self.task), called |-> p.called]

\* ------------------------------------------------------------ the program

\* What a call left behind for its caller: the call, the exception it raised
\* ("none": it returned), its return value and the delegate methods it called.
Call(op, task, hp, eval_set, rounds, exc, ret, retmap, called) ==
    [op |-> op, task |-> task, hp |-> hp, eval_set |-> eval_set,
     rounds |-> rounds, exc |-> exc, ret |-> ret, retmap |-> retmap,
     called |-> called, wasFitted |-> FALSE]

NoCall == Call("none", "-", EmptyMap, "-", "-", "none", "-", EmptyMap, <<>>)

\* A set_params call record, with whether the delegate the call found was
\* fitted.
SetParamsCall(exc, wasFitted) ==
    [Call("set_params", "-", EmptyMap, "-", "-", exc,
          IF exc = "none" THEN "self" ELSE NoneValue, EmptyMap, <<>>)
     EXCEPT !.wasFitted = wasFitted]

Bound(c) == obj[c] # NoObj

\* One program per adapter class.
Init ==
    /\ live \in {{c} : c \in Classes}
    /\ obj = [c \in live |-> NoObj]
    /\ last = [c \in live |-> NoCall]

\* The same calls made on one adapter of each class.
InitSwap ==
    /\ live = Classes
    /\ obj = [c \in live |-> NoObj]
    /\ last = [c \in live |-> NoCall]

\* m = Cls(task=taskArg, **kwargs); the variable is bound only if the
\* constructor returns.
ConstructAct ==
    \E taskArg \in TaskInputs \cup {Omitted}, kwargs \in ParamMaps :
        LET R(c) == Construct(c, taskArg, kwargs) IN
        /\ \A c \in live : ~Bound(c)
        /\ obj' = [c \in live |-> IF R(c).exc = "none" THEN R(c).self ELSE obj[c]]
        /\ last' = [c \in live |->
               Call("construct", taskArg, kwargs, "-", "-", R(c).exc,
                    IF R(c).exc = "none" THEN "adapter" ELSE NoneValue,
                    EmptyMap, <<>>)]
        /\ UNCHANGED live

\* m.set_params(task=taskArg, **hp) (task left out when Omitted).
SetParamsAct ==
    \E taskArg \in TaskInputs \cup {Omitted}, hp \in ParamUpdates :
        LET R(c) == SetParams(c, obj[c], taskArg, hp) IN
        /\ \A c \in live : Bound(c)
        /\ \A c \in live : R(c).self.model.id <= MaxModels
        /\ obj' = [c \in live |-> R(c).self]
        /\ last' = [c \in live |-> SetParamsCall(R(c).exc, obj[c].model.fitted)]
        /\ UNCHANGED live

\* m.fit(X, y, eval_set=evalArg, early_stopping_rounds=roundsArg) (a keyword
\* left out when Omitted).
FitAct ==
    \E evalArg \in EvalSetInputs, roundsArg \in RoundsInputs :
        LET R(c) == Fit(c, obj[c], evalArg, roundsArg) IN
        /\ \A c \in live : Bound(c)
        /\ \A c \in live : R(c).self.model.fits <= MaxFits
        /\ obj' = [c \in live |-> R(c).self]
        /\ last' = [c \in live |->
               Call("fit", "-", EmptyMap, evalArg, roundsArg, R(c).exc,
                    NoneValue, EmptyMap, R(c).called)]
        /\ UNCHANGED live

\* m.predict(X).
PredictAct ==
    LET R(c) == Predict(c, obj[c]) IN
    /\ \A c \in live : Bound(c)
    /\ last' = [c \in live |->
           Call("predict", "-", EmptyMap, "-", "-", R(c).exc, R(c).ret,
                EmptyMap, R(c).called)]
    /\ UNCHANGED <<live, obj>>

\* m.predict_proba(X).
PredictProbaAct ==
    LET R(c) == PredictProba(c, obj[c]) IN
    /\ \A c \in live : Bound(c)
    /\ last' = [c \in live |->
           Call("predict_proba", "-", EmptyMap, "-", "-", R(c).exc, R(c).ret,
                EmptyMap, R(c).called)]
    /\ UNCHANGED <<live, obj>>

\* m.evaluate(X_test, y_test).
EvaluateAct ==
    LET R(c) == Evaluate(c, obj[c]) IN
    /\ \A c \in live : Bound(c)
    /\ last' = [c \in live |->
           Call("evaluate", "-", EmptyMap, "-", "-", R(c).exc, R(c).ret,
                EmptyMap, R(c).called)]
    /\ UNCHANGED <<live, obj>>

\* m.get_params().
GetParamsAct ==
    /\ \A c \in live : Bound(c)
    /\ last' = [c \in live |->
           Call("get_params", "-", EmptyMap, "-", "-", "none", "dict",
                GetParams(obj[c]), <<>>)]
    /\ UNCHANGED <<live, obj>>

Next ==
    \/ ConstructAct
    \/ SetParamsAct
    \/ FitAct
    \/ PredictAct
    \/ PredictProbaAct
    \/ EvaluateAct
    \/ GetParamsAct

Spec == Init /\ [][Next]_vars

SpecSwap == InitSwap /\ [][Next]_vars

\* ------------------------------------------------------------ the claims

\* The task a constructor call runs with.
TaskOf(call) == ArgOrDefault(call.task, "classification")

\* C1 (as stated): a construct call with a recognized task whose keywords all
\* have a documented default succeeds, and the delegate's value for each of
\* them is the caller's.
C1_CallerOverridesWin ==
    \A c \in live :
        ( /\ last[c].op = "construct"
          /\ TaskOf(last[c]) \in Recognized
          /\ last[c].hp # EmptyMap
          /\ DOMAIN last[c].hp \subseteq DOMAIN Defaults(c, TaskBranch(TaskOf(last[c]))) )
        => /\ last[c].exc = "none"
           /\ \A k \in DOMAIN last[c].hp : obj[c].model.kw[k] = last[c].hp[k]

\* C2 (as stated): construct fails with ValueError, and binds no adapter,
\* whenever task is not literally "classification" or "regression".
C2_UnrecognizedTaskRejected ==
    \A c \in live :
        (last[c].op = "construct" /\ TaskOf(last[c]) \notin Recognized)
        => (last[c].exc = "ValueError" /\ ~Bound(c))

\* C2 (amended): construct fails with ValueError, and binds no adapter,
\* whenever task is a string whose lower-cased form is not "classification"
\* or "regression", whatever the other keywords.
C2_InvalidTaskRejected ==
    \A c \in live :
        ( /\ last[c].op = "construct"
          /\ TaskOf(last[c]) # NoneValue
          /\ Lower(TaskOf(last[c])) \notin Recognized )
        => (last[c].exc = "ValueError" /\ ~Bound(c))

C2_Witness ==
    \E c \in live :
        /\ last[c].op = "construct"
        /\ last[c].task = "invalid"
        /\ last[c].hp # EmptyMap
        /\ last[c].exc = "ValueError"
        /\ ~Bound(c)

\* C3: predict_proba on an adapter whose task is "regression" raises
\* AttributeError without calling the delegate, fitted or not.
C3_RegressionHasNoProba ==
    \A c \in live :
        (last[c].op = "predict_proba" /\ obj[c].task = "regression")
        => (last[c].exc = "AttributeError" /\ last[c].called = <<>>)

C3_Witness ==
    \E c \in live :
        /\ last[c].op = "predict_proba"
        /\ obj[c].task = "regression"
        /\ obj[c].model.id >= 2
        /\ obj[c].model.fitted
        /\ last[c].exc = "AttributeError"

\* construct(**a.get_params()) returns an adapter with a's get_params().
RoundTrips(c, a) ==
    LET gp == GetParams(a)
        r == Construct(c, gp["task"], [k \in (DOMAIN gp) \ {"task"} |-> gp[k]])
    IN  r.exc = "none" /\ GetParams(r.self) = gp

\* C4: the adapter a successful construct or set_params call leaves behind
\* round-trips through get_params and construct.
C4_GetParamsRoundTrips ==
    \A c \in live :
        (last[c].op \in {"construct", "set_params"} /\ last[c].exc = "none")
        => RoundTrips(c, obj[c])

C4_Witness ==
    \E c \in live :
        /\ last[c].op = "set_params"
        /\ last[c].exc = "none"
        /\ obj[c].task = "regression"
        /\ obj[c].params # EmptyMap
        /\ RoundTrips(c, obj[c])

\* C5: every set_params call that returns leaves a delegate that is a new
\* one (not the delegate the call found) and unfitted, with no fit call
\* recorded, whatever the arguments.
C5_SetParamsRebuilds ==
    [][ \A c \in live :
          (last'[c].op = "set_params" /\ last'[c].exc = "none")
          => /\ obj'[c].model.id > obj[c].model.id
             /\ ~obj'[c].model.fitted
             /\ obj'[c].model.fits = 0
             /\ obj'[c].model.lastFit = NoFit ]_vars

C5_Witness ==
    \E c \in live :
        /\ last[c].op = "set_params"
        /\ last[c].exc = "none"
        /\ last[c].wasFitted
        /\ ~obj[c].model.fitted

\* C6 (as stated): an evaluate call that returns, returns the accuracy when
\* the task is classification, the mean squared error when it is regression,
\* and never None.
C6_EvaluateReturnsMetric ==
    \A c \in live :
        (last[c].op = "evaluate" /\ last[c].exc = "none")
        => /\ last[c].ret # NoneValue
           /\ (obj[c].task = "classification"
                 => last[c].ret = "accuracy_score(y_test, y_pred)")
           /\ (obj[c].task = "regression"
                 => last[c].ret = "mean_squared_error(y_test, y_pred)")

\* An optional fit argument that was supplied and is not None.
Present(v) == ArgOrDefault(v, NoneValue) # NoneValue

\* The delegate fit call that passes both optional arguments through.
EarlyCall(call) ==
    [kind |-> "early", eval_set |-> call.eval_set,
     early_stopping_rounds |-> call.rounds, verbose |-> FALSE]

\* C7 (as stated): LightGBM.fit passes eval_set and early_stopping_rounds
\* through whenever both are supplied and not None, and calls the plain fit
\* otherwise.
C7_PresentMeansNotNone ==
    \A c \in live :
        (c = "LightGBM" /\ last[c].op = "fit")
        => obj[c].model.lastFit =
              IF Present(last[c].eval_set) /\ Present(last[c].rounds)
              THEN EarlyCall(last[c]) ELSE [kind |-> "plain"]

\* C7 (amended): LightGBM.fit calls the delegate's fit exactly once: with
\* eval_set and early_stopping_rounds passed through unchanged (and
\* verbose=False) whenever both are truthy, and as plain fit(X, y) whenever
\* one is omitted, None, empty or 0.
C7_TruthyMeansEarlyStopping ==
    [][ \A c \in live :
          (c = "LightGBM" /\ last'[c].op = "fit")
          => /\ obj'[c].model.fits = obj[c].model.fits + 1
             /\ obj'[c].model.lastFit =
                  IF Truthy(last'[c].eval_set) /\ Truthy(last'[c].rounds)
                  THEN EarlyCall(last'[c]) ELSE [kind |-> "plain"] ]_vars

C7_Witness ==
    \E c \in live :
        /\ c = "LightGBM"
        /\ last[c].op = "fit"
        /\ last[c].eval_set = "[]"
        /\ last[c].rounds = "5"
        /\ obj[c].model.fits = 1
        /\ obj[c].model.lastFit = [kind |-> "plain"]

\* C8 (as stated): the same call made on an adapter of each class ends the
\* same way (returns, or raises the same exception) on both.
C8_SameOutcomeOnBoth ==
    \A c \in live, d \in live : last[c].exc = last[d].exc

\* C9 (as stated): a bound adapter's task is "classification" or
\* "regression" and its delegate is the variant of that task.
C9_TaskSelectsDelegate ==
    \A c \in live :
        Bound(c)
        => /\ obj[c].task \in Recognized
           /\ (obj[c].model.variant = "classifier" <=> obj[c].task = "classification")
           /\ (obj[c].model.variant = "regressor" <=> obj[c].task = "regression")

\* C10 (as stated): a set_params call that raises leaves the adapter as it
\* was: same task, same keyword overrides, same delegate.
C10_FailedSetParamsChangesNothing ==
    [][ \A c \in live :
          (last'[c].op = "set_params" /\ last'[c].exc # "none")
          => obj'[c] = obj[c] ]_vars

====
